---- MODULE Spec2Model ----
(***************************************************************************)
(* A model of the image backend of src/index.js: an Express 4 application   *)
(* with two POST handlers.                                                  *)
(*                                                                          *)
(*   POST /api/generate-image   validates a prompt, reads BYTEZ_API_KEY,    *)
(*                              awaits model.run(prompt.trim()) and relays  *)
(*                              an image URL;                               *)
(*   POST /api/compress-image   takes a multer upload, sanitizes quality,   *)
(*                              width and format, awaits sharp's toBuffer() *)
(*                              and answers with a data URL.                *)
(*                                                                          *)
(* JavaScript values are tagged records.  Strings that the code inspects    *)
(* character by character (trim, parseInt, toLowerCase, includes) are       *)
(* sequences of one-character strings, Str(<<"4", "2">>); string literals   *)
(* of the code that are only passed on are kept whole, Lit("...").          *)
(***************************************************************************)
EXTENDS Integers, Sequences, FiniteSets, TLC

VARIABLES
    env,        \* process.env.BYTEZ_API_KEY
    pc,         \* per request: where its handler stands
    req,        \* per request: what the client sent
    locals,     \* per request: the handler's locals that live across its await
    res,        \* per request: the responses written, in order
    ext,        \* per request: what the awaited service settled with
    runCalls,   \* per request: the arguments of every model.run call
    sharpCalls  \* per request: the pipeline of every toBuffer call

vars == <<env, pc, req, locals, res, ext, runCalls, sharpCalls>>

----------------------------------------------------------------------------
(* Bounds of the model.                                                     *)

\* Requests in flight together.
MaxReqs == 3
\* Longest prompt tried exhaustively, in characters.
MaxPromptLen == 3
\* Longest quality / width field tried exhaustively, in characters.
MaxFieldLen == 3

Reqs == 1..MaxReqs

----------------------------------------------------------------------------
(* JavaScript values.                                                       *)

Undefined == [t |-> "undefined"]
Null == [t |-> "null"]
NaN == [t |-> "NaN"]
Str(s) == [t |-> "string", s |-> s]
Lit(x) == [t |-> "string", lit |-> x]
Num(n) == [t |-> "number", n |-> n]
Bool(b) == [t |-> "boolean", b |-> b]
Arr(e) == [t |-> "array", e |-> e]

\* ToBoolean: what `!v`, `v || w` and `if (v)` test.
Truthy(v) ==
    CASE v.t = "undefined" -> FALSE
      [] v.t = "null" -> FALSE
      [] v.t = "NaN" -> FALSE
      [] v.t = "string" -> IF "s" \in DOMAIN v THEN v.s # <<>> ELSE v.lit # ""
      [] v.t = "number" -> v.n # 0
      [] v.t = "boolean" -> v.b
      [] OTHER -> TRUE

\* a || b
Or(a, b) == IF Truthy(a) THEN a ELSE b

\* v[name] on a value that is neither null nor undefined: a primitive has no
\* such own property, an object has it when it was set.
Prop(v, name) ==
    IF v.t = "object" /\ name \in DOMAIN v THEN v[name] ELSE Undefined

WhiteSpace == {" ", "\t", "\n"}
DigitChars == <<"0", "1", "2", "3", "4", "5", "6", "7", "8", "9">>
UpperChars == <<"A", "B", "C", "D", "E", "F", "G", "H", "I", "J", "K", "L", "M",
                "N", "O", "P", "Q", "R", "S", "T", "U", "V", "W", "X", "Y", "Z">>
LowerChars == <<"a", "b", "c", "d", "e", "f", "g", "h", "i", "j", "k", "l", "m",
                "n", "o", "p", "q", "r", "s", "t", "u", "v", "w", "x", "y", "z">>

IsDigit(c) == \E i \in 1..10 : DigitChars[i] = c
DigitValue(c) == (CHOOSE i \in 1..10 : DigitChars[i] = c) - 1

\* String.prototype.trim on a sequence of characters.
RECURSIVE TrimStart(_)
TrimStart(s) ==
    IF s # <<>> /\ Head(s) \in WhiteSpace THEN TrimStart(Tail(s)) ELSE s

RECURSIVE TrimEnd(_)
TrimEnd(s) ==
    IF s # <<>> /\ s[Len(s)] \in WhiteSpace
    THEN TrimEnd(SubSeq(s, 1, Len(s) - 1))
    ELSE s

Trim(s) == TrimEnd(TrimStart(s))

\* String.prototype.toLowerCase.
ToLowerChar(c) ==
    IF \E i \in 1..26 : UpperChars[i] = c
    THEN LowerChars[CHOOSE i \in 1..26 : UpperChars[i] = c]
    ELSE c

ToLowerCase(s) == [i \in 1..Len(s) |-> ToLowerChar(s[i])]

\* String.prototype.includes.
Includes(s, sub) ==
    \E i \in 0..(Len(s) - Len(sub)) : SubSeq(s, i + 1, i + Len(sub)) = sub

\* ToString, as parseInt applies it to its argument (an array is joined with
\* commas).
RECURSIVE Join(_)
Join(e) ==
    IF e = <<>> THEN <<>>
    ELSE IF Len(e) = 1 THEN Head(e).s
    ELSE Head(e).s \o <<",">> \o Join(Tail(e))

JSToString(v) ==
    CASE v.t = "undefined" -> <<"u", "n", "d", "e", "f", "i", "n", "e", "d">>
      [] v.t = "string" -> v.s
      [] v.t = "array" -> Join(v.e)

\* The longest prefix of s made of decimal digits.
RECURSIVE DigitPrefix(_)
DigitPrefix(s) ==
    IF s # <<>> /\ IsDigit(Head(s)) THEN <<Head(s)>> \o DigitPrefix(Tail(s)) ELSE <<>>

RECURSIVE DecimalValue(_)
DecimalValue(z) ==
    IF z = <<>> THEN 0
    ELSE 10 * DecimalValue(SubSeq(z, 1, Len(z) - 1)) + DigitValue(z[Len(z)])

\* parseInt(v, 10): leading white space is skipped, one sign is read, then the
\* digits up to the first character that is no digit; NaN when there are none.
ParseInt(v) ==
    LET S == TrimStart(JSToString(v))
        neg == S # <<>> /\ Head(S) = "-"
        signed == S # <<>> /\ Head(S) \in {"-", "+"}
        Z == DigitPrefix(IF signed THEN Tail(S) ELSE S)
    IN  IF Z = <<>> THEN NaN
        ELSE Num(IF neg THEN 0 - DecimalValue(Z) ELSE DecimalValue(Z))

\* Number.isFinite: the values of ParseInt are NaN or integers.
IsFinite(v) == v.t = "number"

Min(a, b) == IF a <= b THEN a ELSE b
Max(a, b) == IF a >= b THEN a ELSE b

----------------------------------------------------------------------------
(* Responses.                                                               *)

\* res.status(status).json(body)
JsonResponse(status, body) == [type |-> "json", status |-> status, body |-> body]

\* What Express's default error handler writes for an error a middleware hands
\* to next(err): an HTML page. The application registers no error handler.
HtmlResponse(status) == [type |-> "html", status |-> status]

\* The handler's next step: it answers, or it suspends at its await.
Respond(response) == [op |-> "respond", response |-> response]
Await(call, kept) == [op |-> "await", call |-> call, kept |-> kept]

\* An Error object with a message.
ErrorObj(m) == [t |-> "object", message |-> m]

----------------------------------------------------------------------------
(* POST /api/generate-image.                                                *)

\* express.json(): a body that is no JSON is handed to next(err) with status
\* 400; a request with no JSON body gets req.body = {} (Express 4, which the
\* route app.options('*', ...) of line 37 requires).
ExpressJson(body) ==
    IF body.parsed
    THEN [ok |-> TRUE, body |-> body.value]
    ELSE [ok |-> FALSE, status |-> 400]

\* catch (error) of the generate-image handler.
GenerateCatch(error) ==
    Respond(JsonResponse(500,
        [error |-> Or(Prop(error, "message"), Lit("Internal server error"))]))

\* A variant that looks for the key before it validates the prompt.
GenerateImageStartKeyFirst(body, bytezKey) ==
    LET prompt == Prop(body, "prompt")
    IN  IF ~Truthy(bytezKey)
        THEN Respond(JsonResponse(500,
                 [error |-> Lit("Bytez API key is not configured")]))
        ELSE IF ~Truthy(prompt)
        THEN Respond(JsonResponse(400, [error |-> Lit("Prompt is required")]))
        ELSE IF prompt.t # "string"
        THEN GenerateCatch(ErrorObj(Lit("prompt.trim is not a function")))
        ELSE IF ~Truthy(Str(Trim(prompt.s)))
        THEN Respond(JsonResponse(400, [error |-> Lit("Prompt is required")]))
        ELSE Await(Str(Trim(prompt.s)), Undefined)

\* A variant that hands model.run the prompt as it came.
GenerateImageStartUntrimmed(body, bytezKey) ==
    LET prompt == Prop(body, "prompt")
    IN  IF ~Truthy(prompt)
        THEN Respond(JsonResponse(400, [error |-> Lit("Prompt is required")]))
        ELSE IF prompt.t # "string"
        THEN GenerateCatch(ErrorObj(Lit("prompt.trim is not a function")))
        ELSE IF ~Truthy(Str(Trim(prompt.s)))
        THEN Respond(JsonResponse(400, [error |-> Lit("Prompt is required")]))
        ELSE IF ~Truthy(bytezKey)
        THEN Respond(JsonResponse(500,
                 [error |-> Lit("Bytez API key is not configured")]))
        ELSE Await(prompt, Undefined)

\* The handler up to its await of model.run.
GenerateImageStart(body, bytezKey) ==
    LET prompt == Prop(body, "prompt")
    IN  IF ~Truthy(prompt)
        THEN Respond(JsonResponse(400, [error |-> Lit("Prompt is required")]))
        ELSE IF prompt.t # "string"
        THEN GenerateCatch(ErrorObj(Lit("prompt.trim is not a function")))
        ELSE IF ~Truthy(Str(Trim(prompt.s)))
        THEN Respond(JsonResponse(400, [error |-> Lit("Prompt is required")]))
        ELSE IF ~Truthy(bytezKey)
        THEN Respond(JsonResponse(500,
                 [error |-> Lit("Bytez API key is not configured")]))
        ELSE Await(Str(Trim(prompt.s)), Undefined)

\* A variant that reads an object's fields in the order data, image, url.
ExtractImageUrlDataFirst(output) ==
    IF output.t = "array"
    THEN IF Len(output.e) >= 1 THEN output.e[1] ELSE Undefined
    ELSE IF output.t = "string"
    THEN output
    ELSE IF Truthy(output) /\ output.t = "object"
    THEN Or(Or(Prop(output, "data"), Prop(output, "image")), Prop(output, "url"))
    ELSE Null

\* Extract image URL.
ExtractImageUrl(output) ==
    IF output.t = "array"
    THEN IF Len(output.e) >= 1 THEN output.e[1] ELSE Undefined
    ELSE IF output.t = "string"
    THEN output
    ELSE IF Truthy(output) /\ output.t = "object"
    THEN Or(Or(Prop(output, "url"), Prop(output, "image")), Prop(output, "data"))
    ELSE Null

\* The handler from the settling of model.run to its end.
GenerateImageResume(result) ==
    IF result.settled = "rejected"
    THEN GenerateCatch(result.reason)
    ELSE LET error == Prop(result.value, "error")
             output == Prop(result.value, "output")
             imageUrl == ExtractImageUrl(output)
         IN  IF Truthy(error)
             THEN Respond(JsonResponse(500,
                      [error |-> Or(Prop(error, "message"),
                                    Lit("Failed to generate image"))]))
             ELSE IF ~Truthy(output)
             THEN Respond(JsonResponse(500,
                      [error |-> Lit("No output received from the API")]))
             ELSE IF ~Truthy(imageUrl)
             THEN Respond(JsonResponse(500,
                      [error |-> Lit("Could not extract image URL from response")]))
             ELSE Respond(JsonResponse(200, [success |-> TRUE, imageUrl |-> imageUrl]))

----------------------------------------------------------------------------
(* POST /api/compress-image.                                                *)

\* limits.fileSize of the upload middleware, in bytes.
FileSizeLimit == 15 * 1024 * 1024

DefaultQuality == 80
DefaultWidth == 1600

\* upload.single('image') with memory storage: a file part under another field
\* name, or a file longer than limits.fileSize, is a MulterError handed to
\* next(err); it carries no status, so the default error handler answers 500.
\* A request with no file part leaves req.file undefined.
UploadSingle(upload) ==
    IF upload = Undefined
    THEN [ok |-> TRUE, file |-> Undefined]
    ELSE IF upload.fieldname # "image"
    THEN [ok |-> FALSE, status |-> 500]
    ELSE IF upload.size > FileSizeLimit
    THEN [ok |-> FALSE, status |-> 500]
    ELSE [ok |-> TRUE,
          file |-> [t |-> "object", mimetype |-> upload.mimetype,
                    size |-> upload.size]]

\* catch (error) of the compress-image handler: the error is logged only.
CompressCatch(error) ==
    Respond(JsonResponse(500,
        [error |-> Lit("Failed to compress image. Please try again with a different file.")]))

\* A variant with the arguments of Math.min and Math.max swapped.
SanitizeQualitySwapped(qualityInput) ==
    IF IsFinite(qualityInput)
    THEN Max(Min(qualityInput.n, 1), 100)
    ELSE DefaultQuality

\* quality: the parsed field clamped, or the default.
SanitizeQuality(qualityInput) ==
    IF IsFinite(qualityInput)
    THEN Min(Max(qualityInput.n, 1), 100)
    ELSE DefaultQuality

\* A variant that lets a width of zero through.
SanitizeWidthZero(widthInput) ==
    IF IsFinite(widthInput) /\ widthInput.n >= 0
    THEN widthInput.n
    ELSE DefaultWidth

\* targetWidth: the parsed field when positive, or the default.
SanitizeWidth(widthInput) ==
    IF IsFinite(widthInput) /\ widthInput.n > 0
    THEN widthInput.n
    ELSE DefaultWidth

\* A variant that keeps the upload's type whatever the format field says.
OutputFormatKeepsType(formatInput, inputMime, quality) ==
    IF Includes(inputMime, <<"j", "p", "e", "g">>)
       \/ Includes(inputMime, <<"j", "p", "g">>)
    THEN [encoder |-> "jpeg", options |-> [quality |-> quality, mozjpeg |-> TRUE],
          mimeType |-> "image/jpeg"]
    ELSE IF Includes(inputMime, <<"p", "n", "g">>)
    THEN [encoder |-> "png",
          options |-> [compressionLevel |-> 9, adaptiveFiltering |-> TRUE],
          mimeType |-> "image/png"]
    ELSE [encoder |-> "webp", options |-> [quality |-> quality],
          mimeType |-> "image/webp"]

\* A variant that looks for png before it looks for jpeg.
OutputFormatPngFirst(formatInput, inputMime, quality) ==
    IF formatInput = <<"o", "r", "i", "g", "i", "n", "a", "l">>
    THEN IF Includes(inputMime, <<"p", "n", "g">>)
         THEN [encoder |-> "png",
               options |-> [compressionLevel |-> 9, adaptiveFiltering |-> TRUE],
               mimeType |-> "image/png"]
         ELSE IF Includes(inputMime, <<"j", "p", "e", "g">>)
                 \/ Includes(inputMime, <<"j", "p", "g">>)
         THEN [encoder |-> "jpeg", options |-> [quality |-> quality, mozjpeg |-> TRUE],
               mimeType |-> "image/jpeg"]
         ELSE [encoder |-> "webp", options |-> [quality |-> quality],
               mimeType |-> "image/webp"]
    ELSE [encoder |-> "webp", options |-> [quality |-> quality],
          mimeType |-> "image/webp"]

\* Decide output format: the encoder put on the pipeline and the mimeType.
OutputFormat(formatInput, inputMime, quality) ==
    IF formatInput = <<"o", "r", "i", "g", "i", "n", "a", "l">>
    THEN IF Includes(inputMime, <<"j", "p", "e", "g">>)
            \/ Includes(inputMime, <<"j", "p", "g">>)
         THEN [encoder |-> "jpeg", options |-> [quality |-> quality, mozjpeg |-> TRUE],
               mimeType |-> "image/jpeg"]
         ELSE IF Includes(inputMime, <<"p", "n", "g">>)
         THEN [encoder |-> "png",
               options |-> [compressionLevel |-> 9, adaptiveFiltering |-> TRUE],
               mimeType |-> "image/png"]
         ELSE [encoder |-> "webp", options |-> [quality |-> quality],
               mimeType |-> "image/webp"]
    ELSE [encoder |-> "webp", options |-> [quality |-> quality],
          mimeType |-> "image/webp"]

\* sharp validates its options as the pipeline is built and throws on a bad
\* one: resize wants a positive integer width, jpeg and webp an integer
\* quality from 1 to 100.
SharpAccepts(targetWidth, format) ==
    /\ targetWidth \in Nat /\ targetWidth > 0
    /\ "quality" \in DOMAIN format.options => format.options.quality \in 1..100

\* The handler up to its await of image.toBuffer().
CompressImageStart(file, body) ==
    IF ~Truthy(file)
    THEN Respond(JsonResponse(400, [error |-> Lit("Image file is required")]))
    ELSE LET qualityInput == ParseInt(Prop(body, "quality"))
             widthInput == ParseInt(Prop(body, "width"))
             format == Or(Prop(body, "format"), Str(<<"w", "e", "b", "p">>))
             quality == SanitizeQuality(qualityInput)
             targetWidth == SanitizeWidth(widthInput)
             inputMime == Or(Prop(file, "mimetype"), Str(<<>>))
             out == OutputFormat(ToLowerCase(format.s), inputMime.s, quality)
         IN  IF format.t # "string"
             THEN CompressCatch(ErrorObj(Lit("(intermediate value).toLowerCase is not a function")))
             ELSE IF ~SharpAccepts(targetWidth, out)
             THEN CompressCatch(ErrorObj(Lit("Expected valid parameter")))
             ELSE Await([width |-> targetWidth, encoder |-> out.encoder,
                         options |-> out.options],
                        [mimeType |-> out.mimeType, quality |-> quality,
                         targetWidth |-> targetWidth, originalSize |-> file.size])

\* compressedBuffer.toString('base64'): kept symbolic.
Base64(buffer) == <<"base64", buffer.bytes>>

\* The handler from the settling of toBuffer to its end.
CompressImageResume(kept, result) ==
    IF result.settled = "rejected"
    THEN CompressCatch(result.reason)
    ELSE LET compressedBuffer == result.value
             dataUrl == <<"data:", kept.mimeType, ";base64,", Base64(compressedBuffer)>>
         IN  Respond(JsonResponse(200,
                 [success |-> TRUE,
                  mimeType |-> kept.mimeType,
                  dataUrl |-> dataUrl,
                  originalSize |-> kept.originalSize,
                  compressedSize |-> compressedBuffer.length,
                  quality |-> kept.quality,
                  width |-> kept.targetWidth]))

----------------------------------------------------------------------------
(* The requests and the outcomes of the two services tried.                 *)

StringsUpTo(chars, n) == UNION {[1..k -> chars] : k \in 0..n}

PromptChars == {" ", "\t", "a"}
FieldChars == {" ", "-", "+", "0", "1", "x"}

JsonBody(prompt) == [parsed |-> TRUE, value |-> [t |-> "object", prompt |-> prompt]]
BadJson == [parsed |-> FALSE]

\* Every prompt a JSON body can carry, strings up to MaxPromptLen.
Prompts ==
    {Undefined, Null, Num(0), Num(5), Bool(FALSE), Bool(TRUE), Arr(<<>>),
     [t |-> "object"]}
    \cup {Str(s) : s \in StringsUpTo(PromptChars, MaxPromptLen)}

Bodies == {BadJson} \cup {JsonBody(p) : p \in Prompts}

SampleBodies ==
    {BadJson, JsonBody(Undefined), JsonBody(Str(<<"a">>)),
     JsonBody(Str(<<" ", "a", " ">>))}

\* BYTEZ_API_KEY: unset, set to the empty string, set.
Keys == {Undefined, Lit(""), Lit("sk-test")}

Url(x) == Lit(x)
MaybeUrl(x) == {Undefined, Lit(""), Url(x)}

\* What model.run can settle with: { error, output }, or a rejection.
ProviderErrors ==
    {Null, Lit("Rate limited"), ErrorObj(Lit("Model is loading")),
     ErrorObj(Undefined), ErrorObj(Lit("")), ErrorObj(Num(42))}

ProviderOutputs ==
    {Undefined, Null, Lit(""), Url("https://cdn/s.png"), Num(7),
     Arr(<<>>), Arr(<<Url("https://cdn/a.png")>>),
     Arr(<<Lit(""), Url("https://cdn/b.png")>>),
     Arr(<<Url("https://cdn/a.png"), Url("https://cdn/b.png")>>)}
    \cup {[t |-> "object", url |-> u, image |-> i, data |-> d] :
            u \in MaybeUrl("https://cdn/u.png"),
            i \in MaybeUrl("https://cdn/i.png"),
            d \in MaybeUrl("data:image/png;base64,AA")}

Resolved(v) == [settled |-> "resolved", value |-> v]
Rejected(e) == [settled |-> "rejected", reason |-> e]

ProviderResults ==
    {Resolved([t |-> "object", error |-> e, output |-> o]) :
        e \in ProviderErrors, o \in ProviderOutputs}
    \cup {Rejected(ErrorObj(Lit("fetch failed"))), Rejected(ErrorObj(Lit("")))}

SampleProviderResults ==
    {Resolved([t |-> "object", error |-> Null,
               output |-> Arr(<<Url("https://cdn/a.png")>>)]),
     Resolved([t |-> "object", error |-> Lit("Rate limited"), output |-> Null]),
     Rejected(ErrorObj(Lit("fetch failed")))}

Jpeg == <<"i", "m", "a", "g", "e", "/", "j", "p", "e", "g">>
Jpg == <<"i", "m", "a", "g", "e", "/", "j", "p", "g">>
Png == <<"i", "m", "a", "g", "e", "/", "p", "n", "g">>
Webp == <<"i", "m", "a", "g", "e", "/", "w", "e", "b", "p">>
Gif == <<"i", "m", "a", "g", "e", "/", "g", "i", "f">>
\* A type naming both png and jpeg.
PngJpeg == <<"x", "/", "p", "n", "g", "+", "j", "p", "e", "g">>

Mimes == {Str(Jpeg), Str(Jpg), Str(Png), Str(Webp), Str(Gif), Str(PngJpeg), Str(<<>>)}
SampleMimes == {Str(Jpeg), Str(Png)}

Sizes == {1024, FileSizeLimit, FileSizeLimit + 1}

Upload(fieldname, mimetype, size) ==
    [fieldname |-> fieldname, mimetype |-> mimetype, size |-> size]

\* No file part, a file part under another name, files under 'image'.
Uploads ==
    {Undefined, Upload("photo", Str(Png), 1024)}
    \cup {Upload("image", m, n) : m \in Mimes, n \in Sizes}

SampleUploads ==
    {Undefined, Upload("photo", Str(Png), 1024),
     Upload("image", Str(Jpeg), 1024), Upload("image", Str(Png), FileSizeLimit + 1)}

\* A text field: absent, a string, or (the field sent twice) an array.
NumericFields ==
    {Undefined, Arr(<<Str(<<"5">>), Str(<<"7">>)>>)}
    \cup {Str(s) : s \in StringsUpTo(FieldChars, MaxFieldLen)}

SampleNumericFields == {Undefined, Str(<<"1", "2", "0", "0">>)}

Original == <<"o", "r", "i", "g", "i", "n", "a", "l">>

Formats ==
    {Undefined, Str(<<>>), Str(<<"w", "e", "b", "p">>), Str(Original),
     Str(<<"O", "R", "I", "G", "I", "N", "A", "L">>),
     Str(<<"O", "r", "i", "g", "i", "n", "a", "l">>),
     Str(<<"o", "r", "i", "g", "i", "n", "a", "l", " ">>),
     Str(<<"j", "p", "e", "g">>), Str(<<"p", "n", "g">>),
     Arr(<<Str(Original), Str(Original)>>)}

SampleFormats == {Undefined, Str(Original)}

Fields(quality, width, format) ==
    [t |-> "object", quality |-> quality, width |-> width, format |-> format]

\* Each field in turn runs over all its values, the others over a sample.
FieldSets ==
    {Fields(q, w, f) : q \in NumericFields, w \in SampleNumericFields, f \in SampleFormats}
    \cup {Fields(q, w, f) : q \in SampleNumericFields, w \in NumericFields, f \in SampleFormats}
    \cup {Fields(q, w, f) : q \in SampleNumericFields, w \in SampleNumericFields, f \in Formats}

CompressRequests ==
    {[upload |-> Upload("image", m, 1024), fields |-> b] :
        m \in SampleMimes, b \in FieldSets}
    \cup {[upload |-> u, fields |-> b] : u \in Uploads,
            b \in {Fields(q, w, f) : q \in SampleNumericFields,
                                     w \in SampleNumericFields, f \in Formats}}

SampleCompressRequests ==
    {[upload |-> u, fields |-> Fields(Undefined, Undefined, f)] :
        u \in SampleUploads, f \in SampleFormats}

Buffer(bytes, length) == [bytes |-> bytes, length |-> length]

\* What toBuffer can settle with: the encoded bytes, or a rejection.
CodecResults ==
    {Resolved(Buffer("b1", 512)), Resolved(Buffer("b2", 2048)),
     Rejected(ErrorObj(Lit("Input buffer contains unsupported image format")))}

SampleCodecResults ==
    {Resolved(Buffer("b1", 512)),
     Rejected(ErrorObj(Lit("Input buffer contains unsupported image format")))}

----------------------------------------------------------------------------
(* The server.                                                              *)

Init ==
    /\ env \in Keys
    /\ pc = [r \in Reqs |-> "idle"]
    /\ req = [r \in Reqs |-> Undefined]
    /\ locals = [r \in Reqs |-> Undefined]
    /\ res = [r \in Reqs |-> <<>>]
    /\ ext = [r \in Reqs |-> Undefined]
    /\ runCalls = [r \in Reqs |-> <<>>]
    /\ sharpCalls = [r \in Reqs |-> <<>>]

\* A request to POST /api/generate-image arrives: express.json(), then the
\* handler up to its first return or its await of model.run.
GenerateImage(r, body) ==
    /\ pc[r] = "idle"
    /\ req' = [req EXCEPT ![r] = [route |-> "generate", body |-> body]]
    /\ LET parsed == ExpressJson(body)
           step == GenerateImageStart(parsed.body, env)
       IN  IF ~parsed.ok
           THEN /\ res' = [res EXCEPT ![r] = Append(@, HtmlResponse(parsed.status))]
                /\ pc' = [pc EXCEPT ![r] = "done"]
                /\ UNCHANGED <<locals, runCalls>>
           ELSE IF step.op = "respond"
           THEN /\ res' = [res EXCEPT ![r] = Append(@, step.response)]
                /\ pc' = [pc EXCEPT ![r] = "done"]
                /\ UNCHANGED <<locals, runCalls>>
           ELSE /\ runCalls' = [runCalls EXCEPT ![r] = Append(@, step.call)]
                /\ locals' = [locals EXCEPT ![r] = step.kept]
                /\ pc' = [pc EXCEPT ![r] = "awaitRun"]
                /\ UNCHANGED res
    /\ UNCHANGED <<env, ext, sharpCalls>>

\* model.run settles and the handler runs to its end.
ModelRunSettles(r, result) ==
    /\ pc[r] = "awaitRun"
    /\ ext' = [ext EXCEPT ![r] = result]
    /\ res' = [res EXCEPT ![r] = Append(@, GenerateImageResume(result).response)]
    /\ pc' = [pc EXCEPT ![r] = "done"]
    /\ UNCHANGED <<env, req, locals, runCalls, sharpCalls>>

\* A variant whose locals are declared once for the module, not per call: a
\* request that suspends overwrites what every suspended request kept.
CompressImageSharedLocals(r, upload, fields) ==
    /\ pc[r] = "idle"
    /\ req' = [req EXCEPT ![r] = [route |-> "compress", upload |-> upload,
                                  fields |-> fields]]
    /\ LET parsed == UploadSingle(upload)
           step == CompressImageStart(parsed.file, fields)
       IN  IF ~parsed.ok
           THEN /\ res' = [res EXCEPT ![r] = Append(@, HtmlResponse(parsed.status))]
                /\ pc' = [pc EXCEPT ![r] = "done"]
                /\ UNCHANGED <<locals, sharpCalls>>
           ELSE IF step.op = "respond"
           THEN /\ res' = [res EXCEPT ![r] = Append(@, step.response)]
                /\ pc' = [pc EXCEPT ![r] = "done"]
                /\ UNCHANGED <<locals, sharpCalls>>
           ELSE /\ sharpCalls' = [sharpCalls EXCEPT ![r] = Append(@, step.call)]
                /\ locals' = [x \in Reqs |-> step.kept]
                /\ pc' = [pc EXCEPT ![r] = "awaitToBuffer"]
                /\ UNCHANGED res
    /\ UNCHANGED <<env, ext, runCalls>>

\* A request to POST /api/compress-image arrives: upload.single('image'), then
\* the handler up to its first return or its await of toBuffer.
CompressImage(r, upload, fields) ==
    /\ pc[r] = "idle"
    /\ req' = [req EXCEPT ![r] = [route |-> "compress", upload |-> upload,
                                  fields |-> fields]]
    /\ LET parsed == UploadSingle(upload)
           step == CompressImageStart(parsed.file, fields)
       IN  IF ~parsed.ok
           THEN /\ res' = [res EXCEPT ![r] = Append(@, HtmlResponse(parsed.status))]
                /\ pc' = [pc EXCEPT ![r] = "done"]
                /\ UNCHANGED <<locals, sharpCalls>>
           ELSE IF step.op = "respond"
           THEN /\ res' = [res EXCEPT ![r] = Append(@, step.response)]
                /\ pc' = [pc EXCEPT ![r] = "done"]
                /\ UNCHANGED <<locals, sharpCalls>>
           ELSE /\ sharpCalls' = [sharpCalls EXCEPT ![r] = Append(@, step.call)]
                /\ locals' = [locals EXCEPT ![r] = step.kept]
                /\ pc' = [pc EXCEPT ![r] = "awaitToBuffer"]
                /\ UNCHANGED res
    /\ UNCHANGED <<env, ext, runCalls>>

\* toBuffer settles and the handler runs to its end.
ToBufferSettles(r, result) ==
    /\ pc[r] = "awaitToBuffer"
    /\ ext' = [ext EXCEPT ![r] = result]
    /\ res' = [res EXCEPT ![r] =
                  Append(@, CompressImageResume(locals[r], result).response)]
    /\ pc' = [pc EXCEPT ![r] = "done"]
    /\ UNCHANGED <<env, req, locals, runCalls, sharpCalls>>

\* The guards of the actions, stated ahead of the choice of an input.
Idle(r) == pc[r] = "idle"
AwaitsRun(r) == pc[r] = "awaitRun"
AwaitsToBuffer(r) == pc[r] = "awaitToBuffer"

\* One request, over every input and every outcome of the two services.
Next ==
    \/ Idle(1) /\ \E body \in Bodies : GenerateImage(1, body)
    \/ AwaitsRun(1) /\ \E result \in ProviderResults : ModelRunSettles(1, result)
    \/ Idle(1) /\ \E c \in CompressRequests : CompressImage(1, c.upload, c.fields)
    \/ AwaitsToBuffer(1) /\ \E result \in CodecResults : ToBufferSettles(1, result)

Spec == Init /\ [][Next]_vars

\* MaxReqs requests in flight together, over a sample of the inputs.
NextServer ==
    \E r \in Reqs :
        \/ Idle(r) /\ \E body \in SampleBodies : GenerateImage(r, body)
        \/ AwaitsRun(r)
           /\ \E result \in SampleProviderResults : ModelRunSettles(r, result)
        \/ Idle(r)
           /\ \E c \in SampleCompressRequests : CompressImage(r, c.upload, c.fields)
        \/ AwaitsToBuffer(r)
           /\ \E result \in SampleCodecResults : ToBufferSettles(r, result)

SpecServer == Init /\ [][NextServer]_vars

----------------------------------------------------------------------------
(* The claims.                                                              *)

Routed(r, route) == pc[r] # "idle" /\ req[r].route = route
Done(r) == pc[r] = "done"
IsString(v) == v.t = "string"
Blank(s) == \A i \in 1..Len(s) : s[i] \in WhiteSpace

\* The prompt of a generate-image request whose body express.json() parsed.
HasPrompt(r) == Routed(r, "generate") /\ req[r].body.parsed
PromptOf(r) == req[r].body.value.prompt
ValidPrompt(r) == HasPrompt(r) /\ IsString(PromptOf(r)) /\ ~Blank(PromptOf(r).s)

\* C1: every request to either endpoint is answered exactly once, and the
\* answer is JSON: status 200 with success = true, or status 400 or 500 with a
\* string field error. Stated for the requests whose handling has ended.
JsonAnswer(a) ==
    /\ a.type = "json"
    /\ \/ a.status = 200 /\ "success" \in DOMAIN a.body /\ a.body.success = TRUE
       \/ /\ a.status \in {400, 500}
          /\ "error" \in DOMAIN a.body
          /\ IsString(a.body.error)

C1_OneJsonAnswer ==
    \A r \in Reqs :
        /\ Len(res[r]) <= 1
        /\ Done(r) => Len(res[r]) = 1 /\ JsonAnswer(res[r][1])

\* C2: a generate-image request whose prompt is missing, empty or only white
\* space is answered 400 'Prompt is required', whatever BYTEZ_API_KEY is, and
\* model.run is not called for it.
C2_BlankPromptRejected ==
    \A r \in Reqs :
        (HasPrompt(r)
            /\ \/ PromptOf(r) = Undefined
               \/ IsString(PromptOf(r)) /\ Blank(PromptOf(r).s))
        => /\ res[r] = <<JsonResponse(400, [error |-> Lit("Prompt is required")])>>
           /\ runCalls[r] = <<>>

\* A white-space prompt was rejected while the key was configured.
C2_Witness ==
    \E r \in Reqs :
        /\ HasPrompt(r) /\ Done(r)
        /\ PromptOf(r) = Str(<<" ", "\t">>)
        /\ Truthy(env)
        /\ res[r][1].status = 400

\* The first truthy element of a tuple of values, undefined when none is.
FirstTruthy(vs) ==
    IF \E i \in 1..Len(vs) : Truthy(vs[i])
    THEN vs[CHOOSE i \in 1..Len(vs) :
                Truthy(vs[i]) /\ \A j \in 1..(i - 1) : ~Truthy(vs[j])]
    ELSE Undefined

\* The URL the claim says is relayed for an output.
RelayedUrl(o) ==
    CASE o.t = "array" -> IF o.e = <<>> THEN Undefined ELSE o.e[1]
      [] o.t = "string" -> o
      [] o.t = "object" -> FirstTruthy(<<o.url, o.image, o.data>>)
      [] OTHER -> Undefined

\* C3: generate-image answers {success: true, imageUrl} exactly when the
\* provider returned no error and an output with a non-empty URL in it, and
\* then imageUrl is the first element of an array, a string itself, the first
\* truthy of url, image, data of an object; in every other case in which the
\* provider settled the answer is status 500 with an error and no success.
C3_SuccessIffUrl ==
    \A r \in Reqs :
        Routed(r, "generate") /\ Done(r) =>
            LET a == res[r][1]
                good == /\ ext[r] # Undefined
                        /\ ext[r].settled = "resolved"
                        /\ ~Truthy(ext[r].value.error)
                        /\ Truthy(RelayedUrl(ext[r].value.output))
            IN  IF good
                THEN a = JsonResponse(200,
                             [success |-> TRUE,
                              imageUrl |-> RelayedUrl(ext[r].value.output)])
                ELSE /\ a.type = "json" => "success" \notin DOMAIN a.body
                     /\ ext[r] # Undefined =>
                            /\ a.type = "json" /\ a.status = 500
                            /\ "error" \in DOMAIN a.body

\* An object output with no url but an image and a data field was relayed.
C3_Witness ==
    \E r \in Reqs :
        /\ Routed(r, "generate") /\ Done(r) /\ ext[r] # Undefined
        /\ ext[r].settled = "resolved"
        /\ ext[r].value.output.t = "object"
        /\ ~Truthy(ext[r].value.output.url)
        /\ Truthy(ext[r].value.output.image)
        /\ Truthy(ext[r].value.output.data)
        /\ res[r][1].status = 200
        /\ res[r][1].body.imageUrl = ext[r].value.output.image

\* t is s without its leading and trailing white space.
IsTrimOf(t, s) ==
    /\ t # <<>> => t[1] \notin WhiteSpace /\ t[Len(t)] \notin WhiteSpace
    /\ \E i \in 0..Len(s) :
           /\ i + Len(t) <= Len(s)
           /\ SubSeq(s, i + 1, i + Len(t)) = t
           /\ Blank(SubSeq(s, 1, i))
           /\ Blank(SubSeq(s, i + Len(t) + 1, Len(s)))

\* C8: model.run is called at most once for a request, only for a valid prompt
\* and a configured key, and with the prompt trimmed; a valid prompt without a
\* configured key is answered 500 'Bytez API key is not configured' and
\* model.run is not called.
C8_RunOnceTrimmed ==
    \A r \in Reqs :
        /\ Len(runCalls[r]) <= 1
        /\ runCalls[r] # <<>> =>
               /\ ValidPrompt(r)
               /\ Truthy(env)
               /\ IsString(runCalls[r][1])
               /\ IsTrimOf(runCalls[r][1].s, PromptOf(r).s)
        /\ (ValidPrompt(r) /\ ~Truthy(env)) =>
               /\ res[r] = <<JsonResponse(500,
                               [error |-> Lit("Bytez API key is not configured")])>>
               /\ runCalls[r] = <<>>

\* A prompt with white space on both sides reached model.run trimmed, and the
\* provider's error was answered without a second call.
C8_Witness ==
    \E r \in Reqs :
        /\ ValidPrompt(r) /\ Done(r)
        /\ PromptOf(r) = Str(<<" ", "a", "\t">>)
        /\ runCalls[r] = <<Str(<<"a">>)>>
        /\ ext[r] # Undefined /\ ext[r].settled = "resolved"
        /\ Truthy(ext[r].value.error)

\* A compress-image request whose upload the middleware let through with a
\* file, and whose format field is a string or absent: the handler sanitizes
\* its options without throwing.
Uploaded(r) ==
    /\ Routed(r, "compress")
    /\ req[r].upload # Undefined
    /\ req[r].upload.fieldname = "image"
    /\ req[r].upload.size <= FileSizeLimit
Sanitized(r) ==
    Uploaded(r) /\ (Truthy(req[r].fields.format) => IsString(req[r].fields.format))
Succeeded(r) == Routed(r, "compress") /\ Done(r) /\ res[r][1].status = 200

\* The quality the claim gives for a field.
ClaimedQuality(field) ==
    LET n == ParseInt(field)
    IN  IF n = NaN THEN 80
        ELSE IF n.n < 1 THEN 1
        ELSE IF n.n > 100 THEN 100
        ELSE n.n

\* C4: the quality handed to the encoder and reported in the response is an
\* integer in 1..100: the parsed quality field clamped into [1, 100], and 80
\* when the field is absent or parses to no number.
C4_QualityClamped ==
    \A r \in Reqs :
        Sanitized(r) =>
            LET q == ClaimedQuality(req[r].fields.quality)
            IN  /\ q \in 1..100
                /\ Len(sharpCalls[r]) = 1
                /\ "quality" \in DOMAIN sharpCalls[r][1].options =>
                       sharpCalls[r][1].options.quality = q
                /\ Succeeded(r) => res[r][1].body.quality = q

\* A negative quality was raised to 1 and one above 100 would be lowered: here
\* the field "-1" was encoded and reported with quality 1.
C4_Witness ==
    \E r \in Reqs :
        /\ Succeeded(r)
        /\ req[r].fields.quality = Str(<<"-", "1">>)
        /\ sharpCalls[r][1].options.quality = 1
        /\ res[r][1].body.quality = 1

WebpAnswer(a) ==
    /\ a.body.mimeType = "image/webp"
    /\ SubSeq(a.body.dataUrl, 1, 3) = <<"data:", "image/webp", ";base64,">>

AsksOriginal(r) ==
    /\ IsString(req[r].fields.format)
    /\ ToLowerCase(req[r].fields.format.s) = Original

NamesJpegOrPng(m) ==
    \/ Includes(m.s, <<"j", "p", "e", "g">>)
    \/ Includes(m.s, <<"j", "p", "g">>)
    \/ Includes(m.s, <<"p", "n", "g">>)

ClaimedWidth(field) ==
    LET n == ParseInt(field)
    IN  IF n # NaN /\ n.n > 0 THEN n.n ELSE 1600

\* C6: the width handed to the resizer and reported in the response is a
\* positive integer: the parsed width field when it is above 0, and 1600 when
\* the field is absent, no number, zero or negative.
C6_WidthPositive ==
    \A r \in Reqs :
        Sanitized(r) =>
            LET w == ClaimedWidth(req[r].fields.width)
            IN  /\ w \in Nat /\ w > 0
                /\ Len(sharpCalls[r]) = 1
                /\ sharpCalls[r][1].width = w
                /\ Succeeded(r) => res[r][1].body.width = w

\* A width of zero was replaced by 1600.
C6_Witness ==
    \E r \in Reqs :
        /\ Succeeded(r)
        /\ req[r].fields.width = Str(<<"0">>)
        /\ sharpCalls[r][1].width = 1600
        /\ res[r][1].body.width = 1600

\* The type the claim gives for a format field and an upload's MIME type.
ClaimedMime(r) ==
    LET m == req[r].upload.mimetype.s
        jpeg == Includes(m, <<"j", "p", "e", "g">>) \/ Includes(m, <<"j", "p", "g">>)
        png == Includes(m, <<"p", "n", "g">>)
    IN  IF AsksOriginal(r) /\ jpeg THEN "image/jpeg"
        ELSE IF AsksOriginal(r) /\ png /\ ~jpeg THEN "image/png"
        ELSE "image/webp"

\* C9: in every successful compress-image response mimeType is image/webp,
\* image/jpeg or image/png, the dataUrl is 'data:<mimeType>;base64,...' with
\* the same mimeType, and the type is image/jpeg only for format 'original'
\* (in any letter case) with an upload type naming jpeg or jpg, image/png only
\* for 'original' with a type naming png and not jpeg or jpg, image/webp
\* otherwise.
C9_MimeChosen ==
    \A r \in Reqs :
        Succeeded(r) =>
            LET a == res[r][1].body
            IN  /\ a.mimeType \in {"image/webp", "image/jpeg", "image/png"}
                /\ SubSeq(a.dataUrl, 1, 3) = <<"data:", a.mimeType, ";base64,">>
                /\ a.mimeType = ClaimedMime(r)

\* An upload whose type names both png and jpeg, sent with format 'ORIGINAL',
\* came back as JPEG.
C9_Witness ==
    \E r \in Reqs :
        /\ Succeeded(r)
        /\ req[r].upload.mimetype = Str(PngJpeg)
        /\ req[r].fields.format = Str(<<"O", "R", "I", "G", "I", "N", "A", "L">>)
        /\ res[r][1].body.mimeType = "image/jpeg"

FailedToCompress ==
    JsonResponse(500,
        [error |-> Lit("Failed to compress image. Please try again with a different file.")])

\* C10: a compress-image request with no file in the 'image' field is answered
\* 400 'Image file is required' and the codec is not invoked for it; a failure
\* while sanitizing or encoding is answered 500 with the fixed message, never
\* with the codec's own text and never with success.
C10_CompressErrors ==
    \A r \in Reqs :
        (Routed(r, "compress") /\ Done(r)) =>
            /\ (req[r].upload = Undefined \/ req[r].upload.fieldname # "image") =>
                   /\ res[r] = <<JsonResponse(400,
                                   [error |-> Lit("Image file is required")])>>
                   /\ sharpCalls[r] = <<>>
            /\ (Uploaded(r) /\ ~Sanitized(r)) => res[r] = <<FailedToCompress>>
            /\ (ext[r] # Undefined /\ ext[r].settled = "rejected") =>
                   res[r] = <<FailedToCompress>>

\* The part of C10 that the handler itself decides: a request that reached the
\* handler with no file, or that failed in it.
C10_HandlerErrors ==
    \A r \in Reqs :
        (Routed(r, "compress") /\ Done(r)) =>
            /\ req[r].upload = Undefined =>
                   /\ res[r] = <<JsonResponse(400,
                                   [error |-> Lit("Image file is required")])>>
                   /\ sharpCalls[r] = <<>>
            /\ (Uploaded(r) /\ ~Sanitized(r)) => res[r] = <<FailedToCompress>>
            /\ (ext[r] # Undefined /\ ext[r].settled = "rejected") =>
                   res[r] = <<FailedToCompress>>

\* C7: the server keeps no state between requests. Two requests with the same
\* input for which the awaited service settled alike have got the same
\* response, whatever other requests were handled before them or while they
\* were suspended.
C7_SameInputSameAnswer ==
    \A r1, r2 \in Reqs :
        (Done(r1) /\ Done(r2) /\ req[r1] = req[r2] /\ ext[r1] = ext[r2])
        => res[r1] = res[r2]

\* Two compress-image requests with the same input and the same encoded bytes
\* were answered, and a third request with another input was handled too.
C7_Witness ==
    \E r1, r2, r3 \in Reqs :
        /\ r1 # r2
        /\ Succeeded(r1) /\ Succeeded(r2)
        /\ req[r1] = req[r2] /\ ext[r1] = ext[r2]
        /\ Routed(r3, "compress") /\ Uploaded(r3) /\ req[r3] # req[r1]

====
